---- MODULE Spec2Model ----
(***************************************************************************)
(* THORName resolution of midgard: the four read queries over the table    *)
(* thorname_change_events (CheckTHORName, GetTHORName,                     *)
(* GetTHORNamesByAddress, GetTHORNamesByOwnerAddress), the ingestion that  *)
(* appends rows to the table and the chain height that advances.           *)
(***************************************************************************)
EXTENDS Integers, Sequences, FiniteSets, TLC

\* ------------------------------------------------------------- bounds
MaxLog == 3        \* rows in the table, single-name specification
MaxLogMulti == 2   \* rows in the table, two-name specification
MaxLogConc == 2    \* rows in the table, interleaved specification
MaxHeight == 1     \* the chain height runs over 0..MaxHeight

\* ------------------------------------------------------------- domains
NameOne == {"alice"}
Names == {"alice", "bob"}
\* text order of the name column (DISTINCT ON (name) sorts by name)
NameOrder == <<"alice", "bob">>
Chains == {"ETH", "THOR"}
\* text order of the chain column (ORDER BY chain)
ChainOrder == <<"ETH", "THOR">>
\* the chain of the "root" record
RootChain == "THOR"
Addrs == {"a", "b"}
\* the owner column; "" is Go's zero string
Owners == {"", "a", "b"}
Expires == {1, 2}

Nil == "nil"
Error == "error"

VARIABLES
  thorname_change_events,  \* the table: the rows in the order they were appended
  height,                  \* the height LastBlock() reports
  res,                     \* the response of the last call, None when consumed
  pc,                      \* position of an interleaved GetTHORName call
  frame                    \* locals of an interleaved GetTHORName call

vars == <<thorname_change_events, height, res, pc, frame>>

\* ------------------------------------------------------------- values
THORNameEntry(c, a) == [Chain |-> c, Address |-> a]

THORName(o, e, es, err) == [Owner |-> o, Expire |-> e, Entries |-> es, err |-> err]

None ==
  [op |-> "none", arg |-> "", Owner |-> "", Expire |-> 0, Entries |-> <<>>,
   names |-> <<>>, err |-> Nil, failed |-> {}]

NoFrame == [name |-> "", h |-> 0, n0 |-> 0, h0 |-> 0, Owner |-> "", Expire |-> 0]

\* the rows of S with the greatest block_timestamp: the rows that
\* ORDER BY block_timestamp DESC may put first
Latest(tbl, S) ==
  {i \in S : \A j \in S : tbl[j].block_timestamp <= tbl[i].block_timestamp}

\* ------------------------------------------------------------- CheckTHORName
\* WHERE expire > $1 AND name = $2
CheckRows(tbl, h, name) ==
  {i \in DOMAIN tbl : tbl[i].expire > h /\ tbl[i].name = name}

\* every (tName, err) CheckTHORName can return on table tbl at height h
CheckTHORName(tbl, h, name) ==
  LET S == CheckRows(tbl, h, name)
      top == Latest(tbl, S)
  IN  {THORName("", 0, <<>>, Error)}                                   \* db.Query fails
      \cup (IF S = {} THEN {THORName("", 0, <<>>, Nil)} ELSE {})       \* no row
      \cup {THORName(tbl[i].owner, tbl[i].expire, <<>>, Nil) : i \in top}
      \cup {THORName("", 0, <<>>, Error) : i \in top}                  \* Scan fails on expire
      \cup {THORName("", tbl[i].expire, <<>>, Error) : i \in top}      \* Scan fails on owner

\* ------------------------------------------------------------- GetTHORName
RowsOf(tbl, name, chain) ==
  {i \in DOMAIN tbl : tbl[i].name = name /\ tbl[i].chain = chain}

\* SELECT DISTINCT ON (chain) chain, address ... ORDER BY chain, block_timestamp DESC:
\* the entry sequences the query can yield for the chains ChainOrder[k..]
RECURSIVE EntriesFrom(_, _, _)
EntriesFrom(tbl, name, k) ==
  IF k > Len(ChainOrder) THEN {<<>>}
  ELSE LET c == ChainOrder[k]
           S == RowsOf(tbl, name, c)
           rest == EntriesFrom(tbl, name, k + 1)
       IN  IF S = {} THEN rest
           ELSE {<<THORNameEntry(c, tbl[i].address)>> \o r : i \in Latest(tbl, S), r \in rest}

\* the query without "block_timestamp DESC": any row of a chain may come first
RECURSIVE EntriesAnyRowFrom(_, _, _)
EntriesAnyRowFrom(tbl, name, k) ==
  IF k > Len(ChainOrder) THEN {<<>>}
  ELSE LET c == ChainOrder[k]
           S == RowsOf(tbl, name, c)
           rest == EntriesAnyRowFrom(tbl, name, k + 1)
       IN  IF S = {} THEN rest
           ELSE {<<THORNameEntry(c, tbl[i].address)>> \o r : i \in S, r \in rest}

EntriesQueryAnyRow(tbl, name) == EntriesAnyRowFrom(tbl, name, 1)

EntriesQuery(tbl, name) == EntriesFrom(tbl, name, 1)

\* the second half of GetTHORName, after CheckTHORName returned t
ExpandEntries(tbl, name, t) ==
  IF t.err # Nil THEN {t}
  ELSE IF t.Owner = "" THEN {t}
  ELSE {THORName(t.Owner, t.Expire, <<>>, Error)}                       \* db.Query fails
       \cup {THORName(t.Owner, t.Expire, es, Nil) : es \in EntriesQuery(tbl, name)}
       \cup UNION {{THORName(t.Owner, t.Expire, SubSeq(es, 1, k), Error) :
                      k \in 0..(Len(es) - 1)} : es \in EntriesQuery(tbl, name)}  \* Scan fails

\* every (tName, err) GetTHORName can return on table tbl at height h
GetTHORName(tbl, h, name) ==
  UNION {ExpandEntries(tbl, name, t) : t \in CheckTHORName(tbl, h, name)}

\* ------------------------------------------------------------- GetTHORNamesByAddress
\* SELECT DISTINCT ON (name) name ... WHERE address = $1
CandidatesByAddress(tbl, addr) ==
  SelectSeq(NameOrder, LAMBDA n : \E i \in DOMAIN tbl : tbl[i].name = n /\ tbl[i].address = addr)

\* the validation without the comparison of the address: any entry passes
HasAnyEntry(t, addr) == t.Entries # <<>>

\* for _, e := range tName.Entries { if e.Address == *addr
HasAddress(t, addr) == \E k \in DOMAIN t.Entries : t.Entries[k].Address = addr

\* one round of the loop over the candidates: the names appended and the
\* candidates whose GetTHORName returned an error
RECURSIVE ByAddressLoop(_, _, _, _)
ByAddressLoop(tbl, h, addr, cs) ==
  IF cs = <<>> THEN {[names |-> <<>>, failed |-> {}, err |-> Nil]}
  ELSE LET n == Head(cs)
           rest == ByAddressLoop(tbl, h, addr, Tail(cs))
       IN  {IF t.err # Nil
              THEN [names |-> r.names, failed |-> {n} \cup r.failed, err |-> r.err]  \* continue
              ELSE [names |-> (IF HasAddress(t, addr) THEN <<n>> ELSE <<>>) \o r.names,
                    failed |-> r.failed, err |-> r.err]
            : t \in GetTHORName(tbl, h, n), r \in rest}

\* every (names, err) GetTHORNamesByAddress can return, with the candidates that failed
GetTHORNamesByAddress(tbl, h, addr) ==
  {[names |-> <<>>, failed |-> {}, err |-> Error]}                      \* db.Query or Scan fails
  \cup ByAddressLoop(tbl, h, addr, CandidatesByAddress(tbl, addr))

\* ------------------------------------------------------------- GetTHORNamesByOwnerAddress
\* SELECT DISTINCT ON (name) name ... WHERE owner = $1
CandidatesByOwner(tbl, addr) ==
  SelectSeq(NameOrder, LAMBDA n : \E i \in DOMAIN tbl : tbl[i].name = n /\ tbl[i].owner = addr)

RECURSIVE ByOwnerLoop(_, _, _, _)
ByOwnerLoop(tbl, h, addr, cs) ==
  IF cs = <<>> THEN {[names |-> <<>>, failed |-> {}, err |-> Nil]}
  ELSE LET n == Head(cs)
           rest == ByOwnerLoop(tbl, h, addr, Tail(cs))
       IN  {IF t.err # Nil /\ t.Owner = ""
              THEN [names |-> r.names, failed |-> {n} \cup r.failed, err |-> r.err]  \* continue
              ELSE [names |-> (IF t.Owner = addr THEN <<n>> ELSE <<>>) \o r.names,
                    failed |-> (IF t.err # Nil THEN {n} ELSE {}) \cup r.failed, err |-> r.err]
            : t \in CheckTHORName(tbl, h, n), r \in rest}

GetTHORNamesByOwnerAddress(tbl, h, addr) ==
  {[names |-> <<>>, failed |-> {}, err |-> Error]}                      \* db.Query or Scan fails
  \cup ByOwnerLoop(tbl, h, addr, CandidatesByOwner(tbl, addr))

\* ------------------------------------------------------------- responses
NameResponse(op, name, t) ==
  [op |-> op, arg |-> name, Owner |-> t.Owner, Expire |-> t.Expire, Entries |-> t.Entries,
   names |-> <<>>, err |-> t.err, failed |-> {}]

ListResponse(op, addr, r) ==
  [op |-> op, arg |-> addr, Owner |-> "", Expire |-> 0, Entries |-> <<>>,
   names |-> r.names, err |-> r.err, failed |-> r.failed]

\* every response a call of op with argument arg can get on table tbl at height h
Responses(tbl, h, op, arg) ==
  CASE op = "CheckTHORName" ->
         {NameResponse(op, arg, t) : t \in CheckTHORName(tbl, h, arg)}
    [] op = "GetTHORName" ->
         {NameResponse(op, arg, t) : t \in GetTHORName(tbl, h, arg)}
    [] op = "GetTHORNamesByAddress" ->
         {ListResponse(op, arg, r) : r \in GetTHORNamesByAddress(tbl, h, arg)}
    [] op = "GetTHORNamesByOwnerAddress" ->
         {ListResponse(op, arg, r) : r \in GetTHORNamesByOwnerAddress(tbl, h, arg)}

\* ------------------------------------------------------------- state machine
Init ==
  /\ thorname_change_events = <<>>
  /\ height = 0
  /\ res = None
  /\ pc = "idle"
  /\ frame = NoFrame

\* the block_timestamp of the next row: the block of the last row, or a later one
NextTimestamps(tbl) ==
  IF tbl = <<>> THEN {1}
  ELSE {tbl[Len(tbl)].block_timestamp, tbl[Len(tbl)].block_timestamp + 1}

\* the ingestion appends one row
AppendEvent(NS, max) ==
  /\ res = None
  /\ Len(thorname_change_events) < max
  /\ \E n \in NS, c \in Chains, a \in Addrs, o \in Owners, e \in Expires,
        t \in NextTimestamps(thorname_change_events) :
       thorname_change_events' = Append(thorname_change_events,
         [name |-> n, chain |-> c, address |-> a, owner |-> o, expire |-> e,
          block_timestamp |-> t])
  /\ UNCHANGED <<height, res, pc, frame>>

\* the chain grows by one block
AdvanceHeight ==
  /\ res = None
  /\ height < MaxHeight
  /\ height' = height + 1
  /\ UNCHANGED <<thorname_change_events, res, pc, frame>>

CallCheckTHORName(NS) ==
  /\ pc = "idle"
  /\ res = None
  /\ \E n \in NS :
       res' \in Responses(thorname_change_events, height, "CheckTHORName", n)
  /\ UNCHANGED <<thorname_change_events, height, pc, frame>>

CallGetTHORName(NS) ==
  /\ pc = "idle"
  /\ res = None
  /\ \E n \in NS :
       res' \in Responses(thorname_change_events, height, "GetTHORName", n)
  /\ UNCHANGED <<thorname_change_events, height, pc, frame>>

CallGetTHORNamesByAddress ==
  /\ pc = "idle"
  /\ res = None
  /\ \E a \in Addrs :
       res' \in Responses(thorname_change_events, height, "GetTHORNamesByAddress", a)
  /\ UNCHANGED <<thorname_change_events, height, pc, frame>>

CallGetTHORNamesByOwnerAddress ==
  /\ pc = "idle"
  /\ res = None
  /\ \E a \in Owners :
       res' \in Responses(thorname_change_events, height, "GetTHORNamesByOwnerAddress", a)
  /\ UNCHANGED <<thorname_change_events, height, pc, frame>>

\* the caller repeats, with the same input, the call it holds the response of
CallAgain ==
  /\ pc = "idle"
  /\ res # None
  /\ res' \in Responses(thorname_change_events, height, res.op, res.arg)
  /\ UNCHANGED <<thorname_change_events, height, pc, frame>>

\* the caller consumes the response
Discard ==
  /\ res # None
  /\ pc = "idle"
  /\ res' = None
  /\ frame' = NoFrame
  /\ UNCHANGED <<thorname_change_events, height, pc>>

\* --- GetTHORName, one step per round trip (no transaction spans them)
\* CheckTHORName reads LastBlock()
GetLastBlock ==
  /\ pc = "idle"
  /\ res = None
  /\ \E n \in NameOne :
       frame' = [name |-> n, h |-> height, n0 |-> Len(thorname_change_events),
                 h0 |-> height, Owner |-> "", Expire |-> 0]
  /\ pc' = "check"
  /\ UNCHANGED <<thorname_change_events, height, res>>

\* CheckTHORName runs its query; GetTHORName returns when there is no owner
GetCheckQuery ==
  /\ pc = "check"
  /\ \E t \in CheckTHORName(thorname_change_events, frame.h, frame.name) :
       IF t.err # Nil \/ t.Owner = ""
       THEN /\ res' = NameResponse("GetTHORName", frame.name, t)
            /\ pc' = "idle"
            /\ UNCHANGED frame
       ELSE /\ frame' = [frame EXCEPT !.Owner = t.Owner, !.Expire = t.Expire]
            /\ pc' = "entries"
            /\ UNCHANGED res
  /\ UNCHANGED <<thorname_change_events, height>>

\* GetTHORName runs the entries query and returns
GetEntriesQuery ==
  /\ pc = "entries"
  /\ \E t \in ExpandEntries(thorname_change_events, frame.name,
                            THORName(frame.Owner, frame.Expire, <<>>, Nil)) :
       res' = NameResponse("GetTHORName", frame.name, t)
  /\ pc' = "idle"
  /\ UNCHANGED <<thorname_change_events, height, frame>>

\* one name, every call atomic
Next ==
  \/ AppendEvent(NameOne, MaxLog)
  \/ AdvanceHeight
  \/ CallCheckTHORName(NameOne)
  \/ CallGetTHORName(NameOne)
  \/ CallGetTHORNamesByAddress
  \/ CallGetTHORNamesByOwnerAddress
  \/ Discard

Spec == Init /\ [][Next]_vars

\* two names, every call atomic
NextMulti ==
  \/ AppendEvent(Names, MaxLogMulti)
  \/ AdvanceHeight
  \/ CallCheckTHORName(Names)
  \/ CallGetTHORName(Names)
  \/ CallGetTHORNamesByAddress
  \/ CallGetTHORNamesByOwnerAddress
  \/ CallAgain
  \/ Discard

SpecMulti == Init /\ [][NextMulti]_vars

\* one name, GetTHORName interleaved with the ingestion and the chain
NextConc ==
  \/ AppendEvent(NameOne, MaxLogConc)
  \/ AdvanceHeight
  \/ GetLastBlock
  \/ GetCheckQuery
  \/ GetEntriesQuery
  \/ Discard

SpecConc == Init /\ [][NextConc]_vars

\* ------------------------------------------------------------- claims
tbl == thorname_change_events

\* the rows of name on the root chain, and those of them still live at height h
RootRows(name) == RowsOf(tbl, name, RootChain)

LiveRootRows(name, h) == {i \in RootRows(name) : tbl[i].expire > h}

Absent(r) == r.Owner = "" /\ r.Expire = 0

InNames(n) == \E k \in DOMAIN res.names : res.names[k] = n

\* no data-source fault hit the call that r answers
NoFault(r) == r.err = Nil /\ r.failed = {}

\* C1: CheckTHORName returns the owner and expire of the latest live row of the
\* name on the root chain, and nothing of it when the root chain has no live row:
\* rows of other chains never decide the answer.
C1_RootRecordDecides ==
  (res.op = "CheckTHORName" /\ res.err = Nil) =>
    LET L == LiveRootRows(res.arg, height)
    IN  IF L = {} THEN Absent(res)
        ELSE \E i \in Latest(tbl, L) :
               res.Owner = tbl[i].owner /\ res.Expire = tbl[i].expire

\* C2: a name whose root-chain rows have all expired (expire <= height) is
\* absent for CheckTHORName, whatever rows other chains hold. (The weakest case
\* of the claim: every root-chain row of the name is expired.)
C2_ExpiredRootIsAbsent ==
  (/\ res.op = "CheckTHORName"
   /\ res.err = Nil
   /\ RootRows(res.arg) # {}
   /\ \A i \in RootRows(res.arg) : tbl[i].expire <= height)
  => Absent(res)

\* C5: a name without a live root-chain row resolves through GetTHORName to
\* the empty state: no owner, zero expire, no entries.
C5_NoLiveRootIsEmpty ==
  (/\ res.op = "GetTHORName"
   /\ res.err = Nil
   /\ LiveRootRows(res.arg, height) = {})
  => (Absent(res) /\ res.Entries = <<>>)

\* C4: when the newest root-chain row of name N is live and names owner B, and
\* an older root-chain row names owner A # B, then GetTHORNamesByOwnerAddress(B)
\* holds N and GetTHORNamesByOwnerAddress(A) does not (no data-source fault).
C4_OwnerFollowsRoot ==
  (res.op = "GetTHORNamesByOwnerAddress" /\ NoFault(res)) =>
    \A n \in Names :
      \A i \in RootRows(n), j \in RootRows(n) :
        (/\ Latest(tbl, RootRows(n)) = {i}
         /\ tbl[i].expire > height
         /\ tbl[j].block_timestamp < tbl[i].block_timestamp
         /\ tbl[j].owner # tbl[i].owner)
        => /\ (res.arg = tbl[i].owner => InNames(n))
           /\ (res.arg = tbl[j].owner => ~InNames(n))

\* C9: every name GetTHORNamesByOwnerAddress returns, for any address and the
\* empty string too, has a live row (expire > height) whose owner is the address
\* asked for; a name that CheckTHORName can only report absent (no owner) is
\* never returned.
C9_ReturnedNamesAreLive ==
  (res.op = "GetTHORNamesByOwnerAddress") =>
    \A k \in DOMAIN res.names :
      /\ \E i \in DOMAIN tbl :
           /\ tbl[i].name = res.names[k]
           /\ tbl[i].expire > height
           /\ tbl[i].owner = res.arg
      /\ \E t \in CheckTHORName(tbl, height, res.names[k]) : t.Owner # ""

\* C8: a call repeated with the same input on the same table at the same
\* height, neither call hit by a data-source fault, gets the same response;
\* rows that share one block_timestamp included.
C8_RepeatedCallAgrees ==
  [][(/\ res # None
      /\ res' # None
      /\ res'.op = res.op
      /\ res'.arg = res.arg
      /\ thorname_change_events' = thorname_change_events
      /\ height' = height
      /\ NoFault(res)
      /\ NoFault(res'))
     => res' = res]_vars

\* C10: the THORName an interleaved GetTHORName returns is one that
\* GetTHORName returns on a single (table, height) that existed between the
\* call's start and its return.
C10_SingleSnapshot ==
  (res.op = "GetTHORName" /\ res.err = Nil /\ frame # NoFrame) =>
    \E k \in frame.n0..Len(tbl), hh \in frame.h0..height :
      THORName(res.Owner, res.Expire, res.Entries, Nil)
        \in GetTHORName(SubSeq(tbl, 1, k), hh, res.arg)

\* position of chain c in the text order of the chain column
ChainRank(c) == CHOOSE k \in DOMAIN ChainOrder : ChainOrder[k] = c

\* C6: the entries of a name that resolves as live hold exactly one entry for
\* each chain that has a row of the name, each with the address of a row of
\* the greatest block_timestamp of that name and chain (whatever its expire),
\* in ascending order of the chain.
C6_EntriesLatestPerChain ==
  (res.op = "GetTHORName" /\ res.err = Nil /\ res.Owner # "") =>
    /\ \A c \in Chains :
         Cardinality({k \in DOMAIN res.Entries : res.Entries[k].Chain = c})
           = (IF RowsOf(tbl, res.arg, c) = {} THEN 0 ELSE 1)
    /\ \A k \in DOMAIN res.Entries :
         \E i \in Latest(tbl, RowsOf(tbl, res.arg, res.Entries[k].Chain)) :
           res.Entries[k].Address = tbl[i].address
    /\ \A k \in DOMAIN res.Entries, l \in DOMAIN res.Entries :
         k < l => ChainRank(res.Entries[k].Chain) < ChainRank(res.Entries[l].Chain)

\* a live name with an entry for both chains, one of them taken from a chain
\* whose rows have all expired and whose older row held another address
C6_Witness ==
  /\ res.op = "GetTHORName"
  /\ res.err = Nil
  /\ res.Owner # ""
  /\ Len(res.Entries) = 2
  /\ \E k \in DOMAIN res.Entries :
       LET S == RowsOf(tbl, res.arg, res.Entries[k].Chain)
       IN  /\ \A i \in S : tbl[i].expire <= height
           /\ \E j \in S : /\ tbl[j].address # res.Entries[k].Address
                           /\ \A i \in Latest(tbl, S) :
                                tbl[j].block_timestamp < tbl[i].block_timestamp

\* the name has a row that CheckTHORName finds, with an owner
ResolvesLive(n) ==
  /\ CheckRows(tbl, height, n) # {}
  /\ \A i \in Latest(tbl, CheckRows(tbl, height, n)) : tbl[i].owner # ""

\* address A was bound to name n on a chain and a later row of that chain
\* binds another address
Rebound(n, A) ==
  \E i \in DOMAIN tbl, j \in DOMAIN tbl :
    /\ tbl[i].name = n /\ tbl[j].name = n
    /\ tbl[i].chain = tbl[j].chain
    /\ tbl[i].address = A /\ tbl[j].address # A
    /\ tbl[j].block_timestamp > tbl[i].block_timestamp

\* A is the address of no row of the greatest block_timestamp of any chain of n
NotCurrent(n, A) ==
  \A c \in Chains : \A i \in Latest(tbl, RowsOf(tbl, n, c)) : tbl[i].address # A

\* C3 as stated: once a later row rebinds the chain of name N from A to
\* another address, GetTHORNamesByAddress(A) never holds N.
C3_ReboundIsExcluded ==
  (res.op = "GetTHORNamesByAddress" /\ res.err = Nil) =>
    \A n \in Names : Rebound(n, res.arg) => ~InNames(n)

\* C3 amended: ... GetTHORNamesByAddress(A) does not hold N, provided A is
\* not the address of a latest row of N on any chain (it is not bound to N on
\* another chain, nor bound again on that chain).
C3_ReboundAndNotCurrentIsExcluded ==
  (res.op = "GetTHORNamesByAddress" /\ res.err = Nil) =>
    \A n \in Names : (Rebound(n, res.arg) /\ NotCurrent(n, res.arg)) => ~InNames(n)

\* a live name, resolved without fault, is left out for an address that a
\* later row replaced, while rows with that address are still in the table
C3_Witness ==
  /\ res.op = "GetTHORNamesByAddress"
  /\ NoFault(res)
  /\ res.names = <<>>
  /\ \E n \in Names :
       /\ Rebound(n, res.arg)
       /\ NotCurrent(n, res.arg)
       /\ ResolvesLive(n)

\* every latest row of some chain of n holds address A
Bound(n, A) ==
  \E c \in Chains :
    /\ RowsOf(tbl, n, c) # {}
    /\ \A i \in Latest(tbl, RowsOf(tbl, n, c)) : tbl[i].address = A

\* C7: in GetTHORNamesByAddress a candidate whose GetTHORName fails (a
\* data-source error, or no live root-chain row) is left out and raises no
\* error, and every other candidate that is live and bound to the address is
\* in the result.
C7_FailedCandidateIsSkipped ==
  (res.op = "GetTHORNamesByAddress") =>
    /\ (res.failed # {} => res.err = Nil)
    /\ res.err = Nil =>
         \A n \in Names :
           /\ (n \in res.failed \/ LiveRootRows(n, height) = {}) => ~InNames(n)
           /\ (n \notin res.failed /\ ResolvesLive(n) /\ Bound(n, res.arg)) => InNames(n)
====
